---- MODULE Spec2Model ----
(***************************************************************************)
(* CityGrid (src/main.py): an n x m grid of cells that are free (0),       *)
(* obstructed (-1) or covered (1); place_tower marks the square around a   *)
(* tower; place_towers greedily commits the placement of best coverage per *)
(* unit cost while the budget lasts; find_shortest_path answers            *)
(* breadth-first path queries over the placed towers.                      *)
(***************************************************************************)
EXTENDS Integers, Sequences, FiniteSets, TLC

VARIABLES
    n, m,        \* grid dimensions (self.n, self.m), fixed at construction
    grid,        \* self.grid: cell -> -1 | 0 | 1
    towers,      \* self.towers: sequence of <<x, y>>
    budget,      \* self.budget
    pc,          \* "idle", or "loop" while place_towers is at its while test
    uncovered,   \* the local uncovered_blocks of place_towers
    last,        \* the last call made on the object and how it ended
    query,       \* the arguments of the last find_shortest_path call, while no
                 \* call has changed the towers list since
    result,      \* what that find_shortest_path call returned or raised
    budget0,     \* history: the budget given to the constructor
    committed    \* history: the tower types committed by place_towers, in order

vars == <<n, m, grid, towers, budget, pc, uncovered, last, query, result,
          budget0, committed>>

-----------------------------------------------------------------------------
(* Bounds of the model *)

\* side of the square grids the optimizer is run on
N == 3
\* largest budget given to the constructor
MaxBudget == 60
\* direct place_tower calls stop once the towers list has this many entries
MaxTowers == 2
\* side of the obstruction-free grid the path queries run on
PathSide == 6
\* path queries are made while the towers list has at most this many entries
MaxPlacements == 3
\* largest radius r of a path query
MaxRadius == 2

-----------------------------------------------------------------------------
(* The catalog and the cell states *)

Obstructed == -1
Free == 0
Covered == 1

tower_types ==
    [small  |-> [range |-> 1, cost |-> 15],
     medium |-> [range |-> 2, cost |-> 30],
     large  |-> [range |-> 3, cost |-> 60]]

\* a dict iterates in insertion order
TypeOrder == <<"small", "medium", "large">>

TypeNames == {TypeOrder[k] : k \in 1..Len(TypeOrder)}

Max(a, b) == IF a >= b THEN a ELSE b
Min(a, b) == IF a <= b THEN a ELSE b
Abs(a) == IF a < 0 THEN -a ELSE a

\* range(a, b)
PyRange(a, b) == a..(b - 1)

Cells == (0..(n - 1)) \X (0..(m - 1))

CellsOf(rows, cols) == (0..(rows - 1)) \X (0..(cols - 1))

RECURSIVE SumCost(_)
SumCost(types) ==
    IF types = <<>> THEN 0
    ELSE tower_types[Head(types)].cost + SumCost(Tail(types))

-----------------------------------------------------------------------------
(* Construction *)

\* int(total_blocks * (obstruction_percentage / 100))
ObstructedBlocks(rows, cols, pct) == (rows * cols * pct) \div 100

\* the subsets of S with k members
RECURSIVE KSubsets(_, _)
KSubsets(S, k) ==
    IF k = 0 THEN {{}}
    ELSE IF Cardinality(S) < k THEN {}
    ELSE LET x == CHOOSE c \in S : TRUE
         IN  {T \cup {x} : T \in KSubsets(S \ {x}, k - 1)} \cup KSubsets(S \ {x}, k)

\* _place_obstructions draws random cells until that many are obstructed:
\* every layout with exactly that many obstructed cells can come out
Layouts(rows, cols, pct) ==
    {[c \in CellsOf(rows, cols) |-> IF c \in obs THEN Obstructed ELSE Free] :
        obs \in KSubsets(CellsOf(rows, cols), ObstructedBlocks(rows, cols, pct))}

NoCall == [op |-> "init", x |-> 0, y |-> 0, r |-> 0, out |-> "ok"]
NoQuery == [start |-> <<0, 0>>, end |-> <<0, 0>>, r |-> 0]
NoResult == [out |-> "none", path |-> <<>>]

Construct(rows, cols, pct, b) ==
    /\ n = rows
    /\ m = cols
    /\ grid \in Layouts(rows, cols, pct)
    /\ towers = <<>>
    /\ budget = b
    /\ pc = "idle"
    /\ uncovered = {}
    /\ last = NoCall
    /\ query = NoQuery
    /\ result = NoResult
    /\ budget0 = b
    /\ committed = <<>>

-----------------------------------------------------------------------------
(* place_tower *)

\* numpy accepts an index k of an axis of length len when -len <= k < len
IndexOk(k, len) == -len <= k /\ k < len
\* and counts a negative index from the end of the axis
Wrap(k, len) == IF k < 0 THEN k + len ELSE k

\* faulty variant: the test for obstructions is left out
MarkedCellAny(c, x, y, r) ==
    /\ c[1] \in PyRange(Max(0, x - r), Min(n, x + r + 1))
    /\ c[2] \in PyRange(Max(0, y - r), Min(m, y + r + 1))

\* faulty variant: the ranges end at x + r and y + r, one short
MarkedCellShort(c, x, y, r) ==
    /\ c[1] \in PyRange(Max(0, x - r), Min(n, x + r))
    /\ c[2] \in PyRange(Max(0, y - r), Min(m, y + r))
    /\ grid[c] # Obstructed

\* the cells place_tower marks: the clamped square, obstructions left alone
MarkedCell(c, x, y, r) ==
    /\ c[1] \in PyRange(Max(0, x - r), Min(n, x + r + 1))
    /\ c[2] \in PyRange(Max(0, y - r), Min(m, y + r + 1))
    /\ grid[c] # Obstructed

\* faulty variant: "if self.grid[x, y] != 0", so a covered cell is refused too
place_towerFreeOnly(x, y, r) ==
    IF ~(IndexOk(x, n) /\ IndexOk(y, m))
    THEN [out |-> "IndexError", grid |-> grid, towers |-> towers]
    ELSE IF grid[<<Wrap(x, n), Wrap(y, m)>>] # Free
    THEN [out |-> "ValueError", grid |-> grid, towers |-> towers]
    ELSE [out |-> "ok",
          grid |-> [c \in Cells |-> IF MarkedCell(c, x, y, r) THEN Covered ELSE grid[c]],
          towers |-> Append(towers, <<x, y>>)]

\* faulty variant: the placement is recorded before the cell is tested
place_towerRecordFirst(x, y, r) ==
    IF ~(IndexOk(x, n) /\ IndexOk(y, m))
    THEN [out |-> "IndexError", grid |-> grid, towers |-> towers]
    ELSE IF grid[<<Wrap(x, n), Wrap(y, m)>>] = Obstructed
    THEN [out |-> "ValueError", grid |-> grid, towers |-> Append(towers, <<x, y>>)]
    ELSE [out |-> "ok",
          grid |-> [c \in Cells |-> IF MarkedCell(c, x, y, r) THEN Covered ELSE grid[c]],
          towers |-> Append(towers, <<x, y>>)]

\* the outcome of self.place_tower(x, y, r) on the current grid and towers
place_tower(x, y, r) ==
    IF ~(IndexOk(x, n) /\ IndexOk(y, m))
    THEN [out |-> "IndexError", grid |-> grid, towers |-> towers]
    ELSE IF grid[<<Wrap(x, n), Wrap(y, m)>>] = Obstructed
    THEN [out |-> "ValueError", grid |-> grid, towers |-> towers]
    ELSE [out |-> "ok",
          grid |-> [c \in Cells |-> IF MarkedCell(c, x, y, r) THEN Covered ELSE grid[c]],
          towers |-> Append(towers, <<x, y>>)]

\* a direct call of place_tower by a caller of the class
PlaceTower(x, y, r) ==
    /\ pc = "idle"
    /\ LET res == place_tower(x, y, r) IN
        /\ grid' = res.grid
        /\ towers' = res.towers
        /\ last' = [op |-> "place_tower", x |-> x, y |-> y, r |-> r, out |-> res.out]
    /\ query' = NoQuery
    /\ result' = NoResult
    /\ UNCHANGED <<n, m, budget, pc, uncovered, budget0, committed>>

-----------------------------------------------------------------------------
(* place_towers *)

\* faulty variant: the cells within r steps along rows and columns together
calculate_coverageDiamond(x, y, r, uncovered_blocks) ==
    {c \in uncovered_blocks : Abs(c[1] - x) + Abs(c[2] - y) <= r}

\* the cells (i, j) of the two clamped ranges that are in uncovered_blocks
calculate_coverage(x, y, r, uncovered_blocks) ==
    {c \in uncovered_blocks :
        /\ c[1] \in PyRange(Max(0, x - r), Min(n, x + r + 1))
        /\ c[2] \in PyRange(Max(0, y - r), Min(m, y + r + 1))}

\* faulty variant: set.difference, whose result is thrown away
DifferenceDiscarded(set, other) == set

\* set.difference_update: the set with the members of other removed
DifferenceUpdate(set, other) == set \ other

\* faulty variant: a type is tried whenever any budget is left
AffordableIfAnyLeft(cost) == budget > 0

\* faulty variant: "if self.budget <= properties['cost']: continue"
AffordableStrict(cost) == ~(budget <= cost)

\* faulty variant: the skip of the types that are too expensive is left out
AffordableAlways(cost) == TRUE

\* "if self.budget < properties['cost']: continue" skips the types that fail this
Affordable(cost) == ~(budget < cost)

\* faulty variant: "if self.grid[i, j] != 1"
IsCandidateNotCovered(i, j) == grid[<<i, j>>] # Covered

\* faulty variant: "if self.grid[i, j] != -1"
IsCandidateNotObstructed(i, j) == grid[<<i, j>>] # Obstructed

\* "if self.grid[i, j] == 0"
IsCandidate(i, j) == grid[<<i, j>>] = Free

\* faulty variant: "value >= best_value"
ValueGreaterOrEqual(coverage, cost, bestCov, bestCost) ==
    coverage * bestCost >= bestCov * cost

\* "value > best_value" for value = coverage / cost and best_value =
\* bestCov / bestCost: the quotients of these small integers are correctly
\* rounded, so they compare as the fractions do
ValueGreater(coverage, cost, bestCov, bestCost) ==
    coverage * bestCost > bestCov * cost

\* best_choice = None, best_value = 0
NoChoice == [found |-> FALSE, x |-> 0, y |-> 0, type |-> "none", cov |-> 0, cost |-> 1]

\* "if value > best_value": the pair becomes best_choice
Better(type, i, j, coverage, best) ==
    IF ValueGreater(coverage, tower_types[type].cost, best.cov, best.cost)
    THEN [found |-> TRUE, x |-> i, y |-> j, type |-> type,
          cov |-> coverage, cost |-> tower_types[type].cost]
    ELSE best

\* one pass through the body of the innermost loop
Visit(type, i, j, best) ==
    IF ~IsCandidate(i, j) THEN best
    ELSE Better(type, i, j,
                Cardinality(calculate_coverage(i, j, tower_types[type].range,
                                               uncovered)),
                best)

\* "for i in range(self.n): for j in range(self.m)": the cells in row-major
\* order, from cell number k on; the body has run for cell k, giving next,
\* before the loop moves on
RECURSIVE ScanCells(_, _, _)
ScanCells(type, k, best) ==
    IF k >= n * m THEN best
    ELSE CHOOSE r \in {ScanCells(type, k + 1, next) :
                          next \in {Visit(type, k \div m, k % m, best)}} : TRUE

\* "for tower_type, properties in self.tower_types.items()", from the t-th
\* type on; a type that is too expensive is skipped with all its cells
RECURSIVE ScanTypes(_, _)
ScanTypes(t, best) ==
    IF t > Len(TypeOrder) THEN best
    ELSE IF ~Affordable(tower_types[TypeOrder[t]].cost) THEN ScanTypes(t + 1, best)
    ELSE CHOOSE r \in {ScanTypes(t + 1, next) :
                          next \in {ScanCells(TypeOrder[t], 0, best)}} : TRUE

\* best_choice after the for loops of one iteration
BestChoice == ScanTypes(1, NoChoice)

\* the call: uncovered_blocks is built from the grid
PlaceTowersCall ==
    /\ pc = "idle"
    /\ uncovered' = {c \in Cells : grid[c] = Free}
    /\ pc' = "loop"
    /\ last' = [op |-> "place_towers", x |-> 0, y |-> 0, r |-> 0, out |-> "called"]
    /\ query' = NoQuery
    /\ result' = NoResult
    /\ UNCHANGED <<n, m, grid, towers, budget, budget0, committed>>

\* faulty variant: "while uncovered_blocks"
LoopTestNoBudget == uncovered # {}

\* "while uncovered_blocks and self.budget > 0"
LoopTest == uncovered # {} /\ budget > 0

\* lines 72-76 for best_choice = best, res being what place_tower did
Commit(best, r, res) ==
    IF res.out # "ok"
    THEN \* the exception leaves place_towers
         /\ pc' = "idle"
         /\ last' = [op |-> "place_towers", x |-> best.x, y |-> best.y,
                     r |-> r, out |-> res.out]
         /\ UNCHANGED <<grid, towers, budget, uncovered, committed>>
    ELSE /\ grid' = res.grid
         /\ towers' = res.towers
         /\ budget' = budget - tower_types[best.type].cost
         /\ uncovered' = DifferenceUpdate(uncovered,
                             calculate_coverage(best.x, best.y, r, uncovered))
         /\ committed' = Append(committed, best.type)
         /\ pc' = "loop"
         /\ last' = [op |-> "commit", x |-> best.x, y |-> best.y,
                     r |-> r, out |-> "ok"]

ChooseAndCommit(best) ==
    /\ best.found
    /\ Commit(best, tower_types[best.type].range,
              place_tower(best.x, best.y, tower_types[best.type].range))

\* faulty variant: the cells are scanned in the iteration order of the set
\* uncovered_blocks, so any cell of the best value can come first
PlaceTowersIterSetOrder ==
    /\ pc = "loop"
    /\ LoopTest
    /\ \E best \in {BestChoice} : \E c \in uncovered :
          /\ best.found
          /\ Cardinality(calculate_coverage(c[1], c[2],
                 tower_types[best.type].range, uncovered)) = best.cov
          /\ ChooseAndCommit([best EXCEPT !.x = c[1], !.y = c[2]])
    /\ UNCHANGED <<n, m, query, result, budget0>>

\* one iteration that commits best_choice
PlaceTowersIter ==
    /\ pc = "loop"
    /\ LoopTest
    /\ \E best \in {BestChoice} : ChooseAndCommit(best)
    /\ UNCHANGED <<n, m, query, result, budget0>>

\* the while test fails, or best_choice is None and the loop breaks
PlaceTowersReturn ==
    /\ pc = "loop"
    /\ ~LoopTest \/ ~BestChoice.found
    /\ pc' = "idle"
    /\ last' = [op |-> "place_towers", x |-> 0, y |-> 0, r |-> 0, out |-> "returned"]
    /\ UNCHANGED <<n, m, grid, towers, budget, uncovered, query, result, budget0,
                   committed>>

-----------------------------------------------------------------------------
(* find_shortest_path *)

\* faulty variant: "<" for "<="
is_within_rangeStrict(tower1, tower2, r) ==
    Abs(tower1[1] - tower2[1]) < r /\ Abs(tower1[2] - tower2[2]) < r

is_within_range(tower1, tower2, r) ==
    Abs(tower1[1] - tower2[1]) <= r /\ Abs(tower1[2] - tower2[2]) <= r

\* the two appends made for the pair (tower1, tower2), one after the other
AddEdge(graph, tower1, tower2) ==
    LET g1 == [graph EXCEPT ![tower1] = Append(@, tower2)]
    IN  [g1 EXCEPT ![tower2] = Append(@, tower1)]

\* the nested loops over the pairs (i, j), i < j, of positions of the list
RECURSIVE AddPairs(_, _, _, _, _)
AddPairs(graph, i, j, tw, r) ==
    IF i > Len(tw) THEN graph
    ELSE IF j > Len(tw) THEN AddPairs(graph, i + 1, i + 2, tw, r)
    ELSE AddPairs(IF is_within_range(tw[i], tw[j], r)
                  THEN AddEdge(graph, tw[i], tw[j]) ELSE graph,
                  i, j + 1, tw, r)

\* graph = {tower: [] for tower in self.towers}, then the edges
BuildGraph(tw, r) ==
    AddPairs([t \in {tw[k] : k \in 1..Len(tw)} |-> <<>>], 1, 2, tw, r)

\* faulty variant: "visited.add(current)", the node being expanded is marked
\* where the neighbour should be
RECURSIVE ExpandMarkCurrent(_, _, _, _, _)
ExpandMarkCurrent(nbrs, k, path, queue, visited) ==
    IF k > Len(nbrs) THEN [queue |-> queue, visited |-> visited]
    ELSE IF nbrs[k] \notin visited
    THEN ExpandMarkCurrent(nbrs, k + 1, path,
                Append(queue, [node |-> nbrs[k], path |-> Append(path, nbrs[k])]),
                visited \cup {path[Len(path)]})
    ELSE ExpandMarkCurrent(nbrs, k + 1, path, queue, visited)

\* "for neighbor in graph[current]", from the k-th neighbor on
RECURSIVE Expand(_, _, _, _, _)
Expand(nbrs, k, path, queue, visited) ==
    IF k > Len(nbrs) THEN [queue |-> queue, visited |-> visited]
    ELSE IF nbrs[k] \notin visited
    THEN Expand(nbrs, k + 1, path,
                Append(queue, [node |-> nbrs[k], path |-> Append(path, nbrs[k])]),
                visited \cup {nbrs[k]})
    ELSE Expand(nbrs, k + 1, path, queue, visited)

\* "while queue", from the given queue and visited set
RECURSIVE BFSLoop(_, _, _, _)
BFSLoop(graph, end, queue, visited) ==
    IF queue = <<>> THEN [out |-> "None", path |-> <<>>]
    ELSE LET current == Head(queue).node
             path == Head(queue).path
         IN  IF current = end THEN [out |-> "path", path |-> path]
             ELSE IF current \notin DOMAIN graph
             THEN [out |-> "KeyError", path |-> <<>>]
             ELSE CHOOSE res \in
                      {BFSLoop(graph, end, st.queue, st.visited) :
                          st \in {Expand(graph[current], 1, path,
                                         Tail(queue), visited)}} : TRUE

\* faulty variant: queue = [(start, [])]
breadth_firstEmptyPath(graph, start, end) ==
    BFSLoop(graph, end, <<[node |-> start, path |-> <<>>]>>, {})

\* the entries "queue.pop(0)" takes off the queue, in order, until the loop
\* of breadth_first ends
RECURSIVE BFSDequeued(_, _, _, _)
BFSDequeued(graph, end, queue, visited) ==
    IF queue = <<>> THEN <<>>
    ELSE LET current == Head(queue).node
             path == Head(queue).path
         IN  IF current = end \/ current \notin DOMAIN graph
             THEN <<Head(queue)>>
             ELSE LET st == Expand(graph[current], 1, path, Tail(queue), visited)
                  IN  <<Head(queue)>> \o BFSDequeued(graph, end, st.queue, st.visited)

breadth_first(graph, start, end) ==
    BFSLoop(graph, end, <<[node |-> start, path |-> <<start>>]>>, {})

\* the graph is built once, then searched
find_shortest_path(start, end, r) ==
    CHOOSE res \in {breadth_first(graph, start, end) :
                       graph \in {BuildGraph(towers, r)}} : TRUE

\* faulty variant: the graph is built by popping the towers off self.towers
FindShortestPathConsuming(start, end, r) ==
    /\ pc = "idle"
    /\ query' = [start |-> start, end |-> end, r |-> r]
    /\ result' = find_shortest_path(start, end, r)
    /\ last' = [op |-> "find_shortest_path", x |-> 0, y |-> 0, r |-> r,
                out |-> result'.out]
    /\ towers' = <<>>
    /\ UNCHANGED <<n, m, grid, budget, pc, uncovered, budget0, committed>>

\* a call of find_shortest_path by a caller of the class
FindShortestPath(start, end, r) ==
    /\ pc = "idle"
    /\ query' = [start |-> start, end |-> end, r |-> r]
    /\ result' = find_shortest_path(start, end, r)
    /\ last' = [op |-> "find_shortest_path", x |-> 0, y |-> 0, r |-> r,
                out |-> result'.out]
    /\ UNCHANGED <<n, m, grid, towers, budget, pc, uncovered, budget0, committed>>

-----------------------------------------------------------------------------
(* The optimizer run on every layout of an N x N grid *)

\* obstruction percentages given to the constructor: from none to all cells
Percentages == {0, 12, 24, 75, 88, 100}

\* initial budgets: on both sides of each multiple of the cheapest cost
Budgets ==
    {b \in 0..MaxBudget :
        b % tower_types.small.cost \in {0, tower_types.small.cost - 1}}

Init ==
    \E pct \in Percentages, b \in Budgets : Construct(N, N, pct, b)

\* place_towers is called once on the constructed grid
Next ==
    \/ /\ towers = <<>>
       /\ last.op = "init"
       /\ PlaceTowersCall
    \/ PlaceTowersIter
    \/ PlaceTowersReturn

Spec == Init /\ [][Next]_vars

\* the same run for three budgets: none, one that leaves a rest no tower can
\* be bought with, and the largest
RunBudgets == {0, 2 * tower_types.small.cost - 1, MaxBudget}

InitRun ==
    \E pct \in Percentages, b \in RunBudgets : Construct(N, N, pct, b)

SpecRun == InitRun /\ [][Next]_vars

\* the interpreter keeps running the call until it returns
SpecLive == SpecRun /\ WF_vars(Next)

-----------------------------------------------------------------------------
(* Properties of place_towers *)

CoveredCells == {c \in Cells : grid[c] = Covered}
ObstructedCells == {c \in Cells : grid[c] = Obstructed}
FreeCells == {c \in Cells : grid[c] = Free}

\* Chebyshev distance of two coordinates
Cheb(a, b) == Max(Abs(a[1] - b[1]), Abs(a[2] - b[2]))

\* C1: with an initial budget B >= 0 the remaining budget is never negative,
\* B minus the remaining budget is the sum of the costs of the towers
\* committed so far, and a tower type is committed only when its cost is at
\* most the budget remaining just before the commit.
C1_BudgetNeverOverspent ==
    /\ [](budget >= 0 /\ budget0 - budget = SumCost(committed))
    /\ [][last'.op = "commit" =>
            /\ committed' = Append(committed, committed'[Len(committed')])
            /\ tower_types[committed'[Len(committed')]].cost <= budget]_vars

\* two towers were committed and what is left buys no further tower
C1_Witness ==
    /\ Len(committed) >= 2
    /\ budget < tower_types.small.cost
    /\ budget0 - budget = SumCost(committed)

\* C2: every coordinate place_towers puts in the towers list is an in-bounds
\* cell that is not obstructed, and place_towers never ends in the error of
\* place_tower.
C2_TowersOnFreeCells ==
    /\ \A k \in 1..Len(towers) :
          towers[k] \in Cells /\ grid[towers[k]] # Obstructed
    /\ ~(last.op = "place_towers" /\ last.out \in {"ValueError", "IndexError"})

\* place_towers returned with a tower placed right beside an obstructed cell
C2_Witness ==
    /\ last.op = "place_towers" /\ last.out = "returned"
    /\ \E k \in 1..Len(towers) : \E c \in ObstructedCells : Cheb(towers[k], c) = 1

\* C3: every commit strictly shrinks the uncovered set, and the set of
\* covered cells only grows from one step of place_towers to the next.
C3_CoverageMonotone ==
    [][/\ last'.op = "commit" => Cardinality(uncovered') < Cardinality(uncovered)
       /\ CoveredCells \subseteq {c \in Cells : grid'[c] = Covered}]_vars

\* a second commit has shrunk the uncovered set again without emptying it
C3_Witness ==
    /\ last.op = "commit"
    /\ Len(committed) >= 2
    /\ uncovered # {}
    /\ CoveredCells # {}

\* the position of a (type, cell) pair in the scan of one iteration
TypeIndex(t) == CHOOSE k \in 1..Len(TypeOrder) : TypeOrder[k] = t
ScanBefore(t1, c1, t2, c2) ==
    \/ TypeIndex(t1) < TypeIndex(t2)
    \/ /\ t1 = t2
       /\ \/ c1[1] < c2[1]
          \/ c1[1] = c2[1] /\ c1[2] < c2[2]

\* the uncovered cells within Chebyshev distance range(t) of cell c
Gain(t, c, unc) == Cardinality({u \in unc : Cheb(u, c) <= tower_types[t].range})

\* the pair (t, c) is at least as good as every affordable pair on a candidate
\* cell, better than all those scanned before it, and of positive value
GreedyBest(t, c, unc, g, b) ==
    /\ tower_types[t].cost <= b
    /\ g[c] = Free
    /\ Gain(t, c, unc) > 0
    /\ \A t2 \in TypeNames : \A c2 \in DOMAIN g :
          (tower_types[t2].cost <= b /\ g[c2] = Free) =>
              LET lhs == Gain(t, c, unc) * tower_types[t2].cost
                  rhs == Gain(t2, c2, unc) * tower_types[t].cost
              IN  /\ lhs >= rhs
                  /\ ScanBefore(t2, c2, t, c) => lhs > rhs

\* C8: the pair committed in an iteration has the greatest value
\* |coverage| / cost among the affordable types and candidate cells, that
\* value is positive, and among the pairs of greatest value it is the first
\* in scan order (types in catalog order, cells row-major).
C8_GreedyChoice ==
    [][last'.op = "commit" =>
          GreedyBest(committed'[Len(committed')], <<last'.x, last'.y>>,
                     uncovered, grid, budget)]_vars

\* the first commit is a medium tower although a small one was affordable,
\* and another cell would have given a medium tower the same value
C8_Witness ==
    /\ last.op = "commit"
    /\ committed = <<"medium">>
    /\ LET unc0 == {c \in Cells : grid[c] # Obstructed}
           t == committed[1]
           c == <<last.x, last.y>>
       IN  \E c2 \in unc0 : c2 # c /\ Gain(t, c2, unc0) = Gain(t, c, unc0)

\* C12: if the initial budget is 0, or the grid has no free cell, place_towers
\* returns without error, commits no placement (the towers list stays empty)
\* and leaves the grid and the budget as they were: the while test fails the
\* first time it is made.
C12_BoundaryNoPlacement ==
    (budget0 = 0 \/ Cells = ObstructedCells) =>
        /\ towers = <<>>
        /\ committed = <<>>
        /\ budget = budget0
        /\ CoveredCells = {}
        /\ last.out \notin {"ValueError", "IndexError"}
        /\ pc = "loop" =>
              ~LoopTest /\ ENABLED PlaceTowersReturn /\ ~ENABLED PlaceTowersIter

\* place_towers has returned from a grid with free cells and a budget of 0
C12_Witness ==
    /\ last.op = "place_towers" /\ last.out = "returned"
    /\ budget0 = 0
    /\ FreeCells # {}
    /\ towers = <<>>

\* the pair (t, c) is the first of greatest, positive value among the
\* affordable types and the cells of cand
GreedyBestAmong(t, c, unc, b, cand) ==
    /\ tower_types[t].cost <= b
    /\ c \in cand
    /\ Gain(t, c, unc) > 0
    /\ \A t2 \in TypeNames : \A c2 \in cand :
          tower_types[t2].cost <= b =>
              LET lhs == Gain(t, c, unc) * tower_types[t2].cost
                  rhs == Gain(t2, c2, unc) * tower_types[t].cost
              IN  /\ lhs >= rhs
                  /\ ScanBefore(t2, c2, t, c) => lhs > rhs

\* C14: given the same obstruction layout, initial budget and catalog, two
\* runs of place_towers commit the same placements (coordinates and types)
\* in the same order and end with the same grid and budget: from the state
\* the constructor leaves, every step of a run has one outcome only, so no
\* other step from the same state leads to a different state.
C14_Deterministic ==
    [][\A v \in {vars'} : ~ENABLED (Next /\ vars' # v)]_vars

\* a run of two or more commits has returned; its first commit had another
\* cell of equal value to choose from
C14_Witness ==
    /\ last.op = "place_towers" /\ last.out = "returned"
    /\ Len(committed) >= 2
    /\ LET unc0 == Cells \ ObstructedCells
       IN  \E c2 \in unc0 :
              /\ c2 # towers[1]
              /\ Gain(committed[1], c2, unc0) = Gain(committed[1], towers[1], unc0)

\* C15 as claimed: the candidate cells of an iteration are all cells that
\* are not obstructed, those already covered by an earlier tower included,
\* so the pair committed is the first of greatest value among them.
C15_CandidatesIncludeCovered ==
    [][last'.op = "commit" =>
          GreedyBestAmong(committed'[Len(committed')], <<last'.x, last'.y>>,
                          uncovered, budget, Cells \ ObstructedCells)]_vars

\* C15 as amended: the candidate cells are the cells in state Free (grid
\* value 0) only; a cell covered by an earlier tower is no candidate, so no
\* tower is committed on a cell within the range of a tower committed before.
C15_NeverOnCoveredCell ==
    /\ Len(committed) = Len(towers)
    /\ \A k, j \in 1..Len(towers) :
          k < j => Cheb(towers[k], towers[j]) > tower_types[committed[k]].range

\* the second tower was committed on a free cell although a cell the first
\* tower had covered has every newly covered cell within the same range
C15_Witness ==
    /\ last.op = "commit"
    /\ Len(towers) = 2
    /\ Len(committed) = 2
    /\ LET r1 == tower_types[committed[1]].range
           r2 == tower_types[committed[2]].range
           new == {c \in CoveredCells :
                      Cheb(c, towers[2]) <= r2 /\ Cheb(c, towers[1]) > r1}
       IN  /\ new # {}
           /\ \E d \in CoveredCells :
                 /\ Cheb(d, towers[1]) <= r1
                 /\ \A c \in new : Cheb(d, c) <= r2

\* C16: at the start of every iteration of the loop of place_towers, and
\* when it returns, the uncovered set is exactly the set of cells whose grid
\* state is Free; so the cells a commit removes from the uncovered set are
\* exactly the cells place_tower turned from Free to Covered in that commit.
C16_UncoveredIsFree ==
    (pc = "loop" \/ (last.op = "place_towers" /\ last.out = "returned")) =>
        uncovered = FreeCells

\* a commit at the border of the grid, with an obstructed cell inside its
\* square, has left free cells
C16_Witness ==
    /\ last.op = "commit"
    /\ pc = "loop"
    /\ uncovered # {}
    /\ uncovered = FreeCells
    /\ last.x - last.r < 0 \/ last.y + last.r >= m
    /\ \E c \in ObstructedCells : Cheb(c, <<last.x, last.y>>) <= last.r

\* C17: when place_towers returns, either no Free cell remains or the
\* remaining budget is less than the cost of every tower type; it never
\* stops, by return or by error, while a Free cell exists and some tower
\* type is affordable.
C17_StopsOnlyWhenExhausted ==
    /\ (last.op = "place_towers" /\ last.out = "returned") =>
          \/ FreeCells = {}
          \/ \A t \in TypeNames : budget < tower_types[t].cost
    /\ ~(last.op = "place_towers" /\ last.out \in {"ValueError", "IndexError"})

\* place_towers returned after a commit with free cells left and a budget
\* that is positive but buys no tower
C17_Witness ==
    /\ last.op = "place_towers" /\ last.out = "returned"
    /\ committed # <<>>
    /\ FreeCells # {}
    /\ budget > 0
    /\ \A t \in TypeNames : budget < tower_types[t].cost

\* the least cost of the catalog
CheapestCost ==
    CHOOSE c \in {tower_types[t].cost : t \in TypeNames} :
        \A t \in TypeNames : c <= tower_types[t].cost

\* C18: place_towers terminates on every grid and budget: the call returns,
\* and the number of iterations that commit a placement is at most the
\* number of initially Free cells (every commit takes at least one of them)
\* and at most floor(initial budget / cheapest cost).
C18_Terminates ==
    /\ <>(last.op = "place_towers" /\ last.out = "returned")
    /\ [][ObstructedCells' = ObstructedCells]_vars
    /\ [](/\ Len(committed) + Cardinality(FreeCells)
                <= Cardinality(Cells \ ObstructedCells)
           /\ Len(committed) * CheapestCost <= budget0)

\* place_towers returned after as many commits as there were Free cells,
\* two or more, with budget to spare
C18_Witness ==
    /\ last.op = "place_towers" /\ last.out = "returned"
    /\ Len(committed) >= 2
    /\ Len(committed) = Cardinality(Cells \ ObstructedCells)
    /\ budget >= tower_types.small.cost

-----------------------------------------------------------------------------
(* Direct place_tower calls, and place_towers, on a grid with obstructions *)

\* rows a caller passes: the last row counted from the end, the first two
\* rows, and one past the last row
CallRows == {-1, 0, 1, n}
\* columns a caller passes: the first and the last
CallCols == {0, m - 1}
\* radii a caller passes
CallRanges == {tower_types.small.range, tower_types.medium.range}

InitGrid == Construct(N, N, 12, tower_types.medium.cost)

NextGrid ==
    \/ \E x \in CallRows, y \in CallCols, r \in CallRanges :
          Len(towers) < MaxTowers /\ PlaceTower(x, y, r)
    \/ PlaceTowersCall
    \/ PlaceTowersIter
    \/ PlaceTowersReturn

SpecGrid == InitGrid /\ [][NextGrid]_vars

\* the last call was place_tower(x, y, r) with (x, y) a cell of the grid
LastPlaceTowerAt(call) ==
    call.op = "place_tower" /\ <<call.x, call.y>> \in Cells

\* C4: across place_tower and place_towers calls the set of obstructed cells
\* never changes, and a covered cell never becomes free again.
C4_ObstructionsFixed ==
    [][\A c \in Cells :
          /\ grid[c] = Obstructed <=> grid'[c] = Obstructed
          /\ grid[c] = Covered => grid'[c] = Covered]_vars

\* a tower was placed with an obstructed cell inside its square, after
\* place_towers had committed towers of its own
C4_Witness ==
    /\ LastPlaceTowerAt(last) /\ last.out = "ok"
    /\ committed # <<>>
    /\ \E c \in ObstructedCells : Cheb(c, <<last.x, last.y>>) <= last.r
    /\ CoveredCells # {}

\* C5: place_tower(x, y, r) on an in-bounds cell that is not obstructed
\* succeeds, covers exactly the non-obstructed cells (i, j) of the grid with
\* |i - x| <= r and |j - y| <= r, appends (x, y) to the towers list and leaves
\* every other cell, the earlier towers and the budget as they were.
C5_PlaceTowerEffect ==
    [][(LastPlaceTowerAt(last') /\ grid[<<last'.x, last'.y>>] # Obstructed) =>
          /\ last'.out = "ok"
          /\ grid' = [c \in Cells |->
                        IF /\ Abs(c[1] - last'.x) <= last'.r
                           /\ Abs(c[2] - last'.y) <= last'.r
                           /\ grid[c] # Obstructed
                        THEN Covered ELSE grid[c]]
          /\ towers' = Append(towers, <<last'.x, last'.y>>)
          /\ budget' = budget]_vars

\* a second tower was placed: its square is cut by the border of the grid,
\* holds an obstructed cell and leaves a free cell outside
C5_Witness ==
    /\ LastPlaceTowerAt(last) /\ last.out = "ok"
    /\ Len(towers) = 2
    /\ last.y - last.r < 0
    /\ \E c \in ObstructedCells : Cheb(c, <<last.x, last.y>>) <= last.r
    /\ \E c \in FreeCells : Cheb(c, <<last.x, last.y>>) > last.r

\* C6: place_tower(x, y, r) on an obstructed cell fails with the error and
\* leaves the grid, the towers list and the budget as they were.
C6_ObstructedRejected ==
    [][(LastPlaceTowerAt(last') /\ grid[<<last'.x, last'.y>>] = Obstructed) =>
          /\ last'.out = "ValueError"
          /\ grid' = grid
          /\ towers' = towers
          /\ budget' = budget]_vars

\* a placement on an obstructed cell was refused after an earlier one succeeded
C6_Witness ==
    /\ LastPlaceTowerAt(last) /\ last.out = "ValueError"
    /\ grid[<<last.x, last.y>>] = Obstructed
    /\ towers # <<>>
    /\ CoveredCells # {}

\* C7: place_tower(x, y, r) with (x, y) outside the grid fails with an error,
\* marks no cell and records no placement.
C7_OutOfBoundsRejected ==
    [][(last'.op = "place_tower" /\ <<last'.x, last'.y>> \notin Cells) =>
          /\ last'.out # "ok"
          /\ grid' = grid
          /\ towers' = towers]_vars

\* lines 35-43 run on a grid g: what the loops of place_tower(x, y, r) leave
GridAfter(g, x, y, r) ==
    [c \in Cells |->
        IF /\ c[1] \in PyRange(Max(0, x - r), Min(n, x + r + 1))
           /\ c[2] \in PyRange(Max(0, y - r), Min(m, y + r + 1))
           /\ g[c] # Obstructed
        THEN Covered ELSE g[c]]

\* C19: the grid effect of place_tower is idempotent and independent of the
\* order of calls: after a successful place_tower(x, y, r) the same call
\* succeeds again (its cell may now be covered) and leaves the grid as it
\* is; a call B that succeeds before A succeeds after A too, and A then B
\* leaves the grid that B then A leaves (for every B that can still follow
\* A); the towers list alone records every call, in call order.
C19_IdempotentAnyOrder ==
    [][(last'.op = "place_tower" /\ last'.out = "ok") =>
          \A x \in {last'.x}, y \in {last'.y}, r \in {last'.r} :
             /\ grid' = GridAfter(grid, x, y, r)
             /\ towers' = Append(towers, <<x, y>>)
             /\ \A again \in {place_tower(x, y, r)'} :
                   /\ again.out = "ok"
                   /\ again.grid = grid'
                   /\ again.towers = Append(towers', <<x, y>>)
             /\ Len(towers') < MaxTowers =>
                   \A x2 \in CallRows, y2 \in CallCols, r2 \in CallRanges :
                      \A before \in {place_tower(x2, y2, r2)},
                         after \in {place_tower(x2, y2, r2)'} :
                         before.out = "ok" =>
                            /\ after.out = "ok"
                            /\ after.grid = GridAfter(before.grid, x, y, r)]_vars

\* the same placement was made twice in a row on a grid that keeps free
\* cells, and placements at other cells are still possible
C19_Witness ==
    /\ LastPlaceTowerAt(last) /\ last.out = "ok"
    /\ Len(towers) = 2
    /\ towers[1] = towers[2]
    /\ grid[towers[2]] = Covered
    /\ FreeCells # {}
    /\ \E x2 \in CallRows, y2 \in CallCols :
          <<x2, y2>> # towers[2] /\ place_tower(x2, y2, last.r).out = "ok"

-----------------------------------------------------------------------------
(* Path queries over towers placed on an obstruction-free grid *)

\* the coordinates towers are placed at and queries are made for
Sites == {<<0, 0>>, <<1, 1>>, <<0, 2>>, <<5, 5>>}

InitPath == Construct(PathSide, PathSide, 0, 0)

NextPath ==
    \/ \E s \in Sites :
          Len(towers) < MaxPlacements /\ PlaceTower(s[1], s[2], tower_types.small.range)
    \/ \E s \in Sites, e \in Sites, r \in 0..MaxRadius : FindShortestPath(s, e, r)

SpecPath == InitPath /\ [][NextPath]_vars

TowerSet == {towers[k] : k \in 1..Len(towers)}

\* the placements reachable from s by at most k edges of the graph that
\* joins two placements when both coordinates differ by at most r
RECURSIVE WithinEdges(_, _, _)
WithinEdges(s, r, k) ==
    IF k = 0 THEN {s}
    ELSE LET prev == WithinEdges(s, r, k - 1)
         IN  prev \cup {t \in TowerSet : \E p \in prev : Cheb(p, t) <= r}

ReachableFrom(s, r) == WithinEdges(s, r, Cardinality(TowerSet))

\* the least number of edges of a path from s to e, for e reachable from s
EdgeDistance(s, e, r) ==
    CHOOSE k \in 0..Cardinality(TowerSet) :
        /\ e \in WithinEdges(s, r, k)
        /\ k = 0 \/ e \notin WithinEdges(s, r, k - 1)

\* p is a path of the graph from s to e
IsPath(p, s, e, r) ==
    /\ Len(p) >= 1
    /\ p[1] = s
    /\ p[Len(p)] = e
    /\ \A k \in 1..Len(p) : p[k] \in TowerSet
    /\ \A k \in 1..(Len(p) - 1) : Cheb(p[k], p[k + 1]) <= r

LastQuery == last.op = "find_shortest_path"

\* C9: for start and end both in the towers list, find_shortest_path returns
\* a path iff end is reachable from start in the graph whose edges join
\* placements with |dx| <= r and |dy| <= r; the path runs from start to end
\* along edges and has the least number of edges; otherwise the result is
\* None. With placements (0,0), (1,1), (5,5) and r = 2, (0,0) -> (5,5) is
\* None and (0,0) -> (1,1) is [(0,0), (1,1)].
C9_ShortestPath ==
    (LastQuery /\ query.start \in TowerSet /\ query.end \in TowerSet) =>
        /\ IF query.end \in ReachableFrom(query.start, query.r)
           THEN /\ result.out = "path"
                /\ IsPath(result.path, query.start, query.end, query.r)
                /\ Len(result.path) - 1
                      = EdgeDistance(query.start, query.end, query.r)
           ELSE result.out = "None"
        /\ (towers = <<<<0, 0>>, <<1, 1>>, <<5, 5>>>> /\ query.r = 2
               /\ query.start = <<0, 0>>) =>
              /\ query.end = <<5, 5>> => result.out = "None"
              /\ query.end = <<1, 1>> =>
                    result = [out |-> "path", path |-> <<<<0, 0>>, <<1, 1>>>>]

\* the direct edge was returned although the start has a neighbour that is
\* listed before the end and leads to it by a second edge
C9_Witness ==
    /\ LastQuery
    /\ towers = <<<<0, 0>>, <<1, 1>>, <<0, 2>>>>
    /\ query = [start |-> <<0, 0>>, end |-> <<0, 2>>, r |-> 2]
    /\ result = [out |-> "path", path |-> <<<<0, 0>>, <<0, 2>>>>]
    /\ IsPath(<<<<0, 0>>, <<1, 1>>, <<0, 2>>>>, query.start, query.end, query.r)

\* C10: find_shortest_path returns None, and raises nothing, whenever start
\* or end is not a coordinate of the towers list.
C10_UnknownEndpointNotFound ==
    (LastQuery /\ (query.start \notin TowerSet \/ query.end \notin TowerSet)) =>
        result.out = "None"

\* C11: for a placement P of the towers list and any r >= 0,
\* find_shortest_path(P, P, r) returns the one-element path [P], whatever
\* the other placements are.
C11_SelfPath ==
    (LastQuery /\ query.start = query.end /\ query.start \in TowerSet) =>
        result = [out |-> "path", path |-> <<query.start>>]

\* the self-path was asked of a placement that has a neighbour within r and
\* is listed twice
C11_Witness ==
    /\ LastQuery
    /\ query.start = query.end
    /\ query.r >= 1
    /\ \E i, j \in 1..Len(towers) : i # j /\ towers[i] = query.start /\ towers[j] = query.start
    /\ \E t \in TowerSet : t # query.start /\ Cheb(t, query.start) <= query.r
    /\ result = [out |-> "path", path |-> <<query.start>>]

-----------------------------------------------------------------------------
(* Path queries after the optimizer has run *)

InitQuery == Construct(N, N, 12, 3 * tower_types.small.cost)

\* the coordinates queried: the placements and two corners of the grid
Endpoints == TowerSet \cup {<<0, 0>>, <<n - 1, m - 1>>}

\* place_towers is called once, then paths are queried
NextQuery ==
    \/ /\ last.op = "init"
       /\ PlaceTowersCall
    \/ PlaceTowersIter
    \/ PlaceTowersReturn
    \/ \E s \in Endpoints, e \in Endpoints, r \in 0..MaxRadius :
          last.op # "init" /\ FindShortestPath(s, e, r)

SpecQuery == InitQuery /\ [][NextQuery]_vars

\* C13: find_shortest_path leaves the grid, the towers list and the budget
\* unchanged, so a query made after the optimizer has run, however many
\* other queries come between, returns the same result for the same
\* arguments: asked again after any query, the query just made and the one
\* made before it give the results they gave.
C13_QueriesReadOnly ==
    [][last'.op = "find_shortest_path" =>
          /\ grid' = grid
          /\ towers' = towers
          /\ budget' = budget
          /\ \A s \in Endpoints, e \in Endpoints, r \in 0..MaxRadius :
                /\ query' = [start |-> s, end |-> e, r |-> r] =>
                      find_shortest_path(s, e, r)' = result'
                /\ (LastQuery /\ query = [start |-> s, end |-> e, r |-> r]) =>
                      find_shortest_path(s, e, r)' = result]_vars

\* a query between the two towers the optimizer committed found the path,
\* with budget left over
C13_Witness ==
    /\ LastQuery
    /\ Len(committed) = 2
    /\ Len(towers) = 2
    /\ budget > 0
    /\ query.start = towers[1] /\ query.end = towers[2]
    /\ result = [out |-> "path", path |-> towers]

-----------------------------------------------------------------------------
(* The search of breadth_first, entry by entry *)

\* what the last query took off its queue
DequeuedLog ==
    BFSDequeued(BuildGraph(towers, query.r), query.end,
                <<[node |-> query.start, path |-> <<query.start>>]>>, {})

IsSimple(p) == \A i, j \in 1..Len(p) : i # j => p[i] # p[j]

\* how many entries of the log are for node t
TimesDequeued(log, t) == Cardinality({k \in 1..Len(log) : log[k].node = t})

\* C20: every path breadth_first returns holds no placement twice, and the
\* search ends on every graph: although the start is never put in the
\* visited set and can be enqueued a second time by a neighbour, every
\* other placement is dequeued at most once and the start at most twice, so
\* the loop runs at most once more than there are placements.
C20_SimplePathsFiniteSearch ==
    LastQuery =>
        /\ result.out = "path" =>
              /\ IsSimple(result.path)
              /\ result.path = DequeuedLog[Len(DequeuedLog)].path
        /\ \A t \in TowerSet \cup {query.start} :
              TimesDequeued(DequeuedLog, t) <= IF t = query.start THEN 2 ELSE 1
        /\ Len(DequeuedLog) <= Cardinality(TowerSet) + 1

\* a path of two edges was returned after the start had been enqueued again
\* by its neighbour and taken off the queue a second time, with a path that
\* holds it twice
C20_Witness ==
    /\ LastQuery
    /\ result.out = "path"
    /\ Len(result.path) = 3
    /\ IsSimple(result.path)
    /\ TimesDequeued(DequeuedLog, query.start) = 2
    /\ \E k \in 2..Len(DequeuedLog) :
          DequeuedLog[k].node = query.start /\ ~IsSimple(DequeuedLog[k].path)

====
